---- MODULE Spec2Model ----
(***************************************************************************)
(* Model of vault-access/scripts/vault_access.py: one CLI invocation       *)
(* (main): credential resolution, AppRole login, KV v2/v1 negotiation for  *)
(* get and list, and the status probes.                                    *)
(*                                                                         *)
(* Python strings are sequences of atoms (an atom is a character or an     *)
(* opaque multi-character token), so that rstrip/strip/split/join/lower    *)
(* are computed, not assumed.  Python None is the one-atom sequence None.  *)
(* Python dicts are TLA+ functions whose DOMAIN is the key set.            *)
(***************************************************************************)
EXTENDS Integers, Sequences, FiniteSets, TLC

VARIABLES
    pc,        \* position of main(): see the actions below
    given,     \* the inputs of load_credentials when resolution is one step
    creds,     \* the credential dict of load_credentials / main
    args,      \* parsed command line (args.command, path, key, kv_version)
    requests,  \* HTTP requests sent so far, in order
    responses, \* responses[i]: what the requests library gave for requests[i]
    seal,      \* check_status: seal_status body kept between the two probes
    result,    \* value returned by get_secret / list_secrets / check_status
    error,     \* classification of the message printed before sys.exit(1)
    output,    \* what main prints once the command's function has returned
    api        \* what the last make_request returned to its caller

vars == <<pc, given, creds, args, requests, responses, seal, result, error,
          output, api>>

(***************************************************************************)
(* Bounds of the model (not program constants).                            *)
(***************************************************************************)
\* longest credential file (in lines) given to the one-step resolution
MaxLines == 2
\* longest secret value (in characters) given to the output formats
MaxValueLen == 6

(***************************************************************************)
(* Python values.                                                          *)
(***************************************************************************)
None == <<"<None>">>
S(a) == <<a>>
EmptyStr == <<>>
EmptyDict == <<>>

\* Python truthiness of an optional string
Truthy(v) == v # None /\ v # EmptyStr

\* dict.get(k, default)
DictGet(d, k, default) == IF k \in DOMAIN d THEN d[k] ELSE default

\* str.lower() on the atoms used for VAULT_SKIP_VERIFY
LowerAtom(a) == IF a \in {"TRUE", "True"} THEN "true" ELSE a
Lower(s) == [i \in 1..Len(s) |-> LowerAtom(s[i])]

RECURSIVE RStripSlash(_)
RStripSlash(s) ==
    IF s # <<>> /\ s[Len(s)] = "/" THEN RStripSlash(SubSeq(s, 1, Len(s) - 1)) ELSE s

RECURSIVE LStripSlash(_)
LStripSlash(s) ==
    IF s # <<>> /\ s[1] = "/" THEN LStripSlash(Tail(s)) ELSE s

StripSlash(s) == LStripSlash(RStripSlash(s))

(***************************************************************************)
(* Inputs of credential resolution.                                        *)
(***************************************************************************)
\* --env choices (a subset of VALID_ENVIRONMENTS) and "no --env"
EnvTags == {None, S("dev")}

EnvVars == {"VAULT_ADDR", "VAULT_TOKEN", "VAULT_ROLE_ID", "VAULT_ROLE_SECRET",
            "VAULT_NAMESPACE", "VAULT_SKIP_VERIFY", "VAULT_KV_VERSION"}

\* values a process environment may give to each VAULT_* variable (None: unset)
EnvValues(v) ==
    CASE v = "VAULT_ADDR"        -> {None, S("he")}
      [] v = "VAULT_TOKEN"       -> {None, S("te")}
      [] v = "VAULT_ROLE_ID"     -> {None, S("re")}
      [] v = "VAULT_ROLE_SECRET" -> {None, S("xe")}
      [] v = "VAULT_NAMESPACE"   -> {None, S("nse")}
      [] v = "VAULT_SKIP_VERIFY" -> {None, S("true")}
      [] v = "VAULT_KV_VERSION"  -> {None, S("1"), S("2")}

ProcEnvs == {pe \in [EnvVars -> UNION {EnvValues(v) : v \in EnvVars}] :
                \A v \in EnvVars : pe[v] \in EnvValues(v)}

\* A credential-file line after line.strip() and the two regular expressions:
\* kind "skip" is a blank or comment line, "std" a match of (\w+)=..., "prop"
\* a match of com\.sandata\.vault\.(\w+)=(.+), "other" a line neither matches.
Line(kind, key, value) == [kind |-> kind, key |-> key, value |-> S(value)]

StdLines ==
    {Line("std", "VAULT_ADDR", "hf"), Line("std", "VAULT_TOKEN", "tf"),
     Line("std", "VAULT_ROLE_ID", "rf"), Line("std", "VAULT_ROLE_SECRET", "xf"),
     Line("std", "VAULT_NAMESPACE", "nsf"), Line("std", "VAULT_SKIP_VERIFY", "TRUE"),
     Line("std", "VAULT_KV_VERSION", "1"),
     [kind |-> "std", key |-> "VAULT_ADDR", value |-> <<"hf", "/">>]}

PropLines ==
    {Line("prop", "server", "srv"), Line("prop", "port", "8443"),
     Line("prop", "protocol", "http"), Line("prop", "roleId", "rp"),
     Line("prop", "roleSecret", "xp")}

Lines == StdLines \cup PropLines

\* credential files of at most n lines
Files(n) == UNION {[1..k -> Lines] : k \in 0..n}

\* a complete file for the i-th candidate path, with values of its own
LaterFile(i) ==
    <<Line("std", "VAULT_ADDR", IF i = 2 THEN "h2" ELSE "h3"),
      Line("std", "VAULT_TOKEN", IF i = 2 THEN "t2" ELSE "t3")>>

\* process environments of the one-step resolution: nothing set, everything
\* set, and one group of variables set
GroupSet(vs) ==
    [v \in EnvVars |->
        IF v \in vs THEN CHOOSE x \in EnvValues(v) : x # None /\ x # S("2")
        ELSE None]

ResolveEnvs ==
    {GroupSet({}), GroupSet(EnvVars), GroupSet({"VAULT_ADDR"}),
     GroupSet({"VAULT_TOKEN"}), GroupSet({"VAULT_ROLE_ID", "VAULT_ROLE_SECRET"}),
     GroupSet({"VAULT_NAMESPACE", "VAULT_SKIP_VERIFY", "VAULT_KV_VERSION"})}

(***************************************************************************)
(* get_credential_paths (lines 51-65): the ordered candidate files.        *)
(***************************************************************************)
CredPath(dir, env) == [dir |-> dir, suffix |-> env]

get_credential_paths(env) ==
    IF Truthy(env)
    THEN <<CredPath("references", env), CredPath("home", env)>>
    ELSE <<CredPath("references", None), CredPath("home", None),
           CredPath("cwd", None)>>

(***************************************************************************)
(* load_credentials (lines 68-198).                                        *)
(***************************************************************************)
SetKey(d, k, v) == [x \in DOMAIN d \cup {k} |-> IF x = k THEN v ELSE d[x]]
Pop(d, k) == [x \in DOMAIN d \ {k} |-> d[x]]

\* lines 80-89: with --env the record starts from the built-in defaults
FreshCreds(env) ==
    [addr |-> None, token |-> None, role_id |-> None, role_secret |-> None,
     namespace |-> EmptyStr, skip_verify |-> FALSE, kv_version |-> S("auto"),
     env |-> env]

\* lines 92-101: without --env the record starts from the VAULT_* variables
EnvironCreds(env, pe) ==
    [addr |-> pe["VAULT_ADDR"], token |-> pe["VAULT_TOKEN"],
     role_id |-> pe["VAULT_ROLE_ID"], role_secret |-> pe["VAULT_ROLE_SECRET"],
     namespace |-> IF pe["VAULT_NAMESPACE"] = None THEN EmptyStr
                   ELSE pe["VAULT_NAMESPACE"],
     skip_verify |-> Lower(IF pe["VAULT_SKIP_VERIFY"] = None THEN S("false")
                           ELSE pe["VAULT_SKIP_VERIFY"]) = S("true"),
     kv_version |-> IF pe["VAULT_KV_VERSION"] = None THEN S("auto")
                    ELSE pe["VAULT_KV_VERSION"],
     env |-> env]

\* mutant: the VAULT_* variables are read whether or not --env is given
InitialCredsReadsEnviron(env, pe) == EnvironCreds(env, pe)

\* lines 79-101
InitialCreds(env, pe) ==
    IF Truthy(env) THEN FreshCreds(env) ELSE EnvironCreds(env, pe)

\* mutant: the last existing candidate is read instead of the first
FirstExistingLast(paths, fs) ==
    LET ex == {i \in 1..Len(paths) : paths[i] \in DOMAIN fs} IN
    IF ex = {} THEN <<>>
    ELSE <<paths[CHOOSE i \in ex : \A j \in ex : j <= i]>>

\* lines 104-109: creds_file, as <<path>> for the first existing candidate and
\* <<>> when there is none; fs maps each existing path to its lines
RECURSIVE FirstExisting(_, _)
FirstExisting(paths, fs) ==
    IF paths = <<>> THEN <<>>
    ELSE IF Head(paths) \in DOMAIN fs THEN <<Head(paths)>>
    ELSE FirstExisting(Tail(paths), fs)

\* lines 126-144: a line of the form KEY=value
StdLine(c, key, value) ==
    IF key = "VAULT_ADDR" /\ ~Truthy(c["addr"]) THEN SetKey(c, "addr", value)
    ELSE IF key = "VAULT_TOKEN" /\ ~Truthy(c["token"]) THEN SetKey(c, "token", value)
    ELSE IF key = "VAULT_ROLE_ID" /\ ~Truthy(c["role_id"])
        THEN SetKey(c, "role_id", value)
    ELSE IF key = "VAULT_ROLE_SECRET" /\ ~Truthy(c["role_secret"])
        THEN SetKey(c, "role_secret", value)
    ELSE IF key = "VAULT_NAMESPACE" THEN SetKey(c, "namespace", value)
    ELSE IF key = "VAULT_SKIP_VERIFY"
        THEN SetKey(c, "skip_verify", Lower(value) = S("true"))
    ELSE IF key = "VAULT_KV_VERSION" THEN SetKey(c, "kv_version", value)
    ELSE c

\* lines 147-162: a line of the form com.sandata.vault.key=value
PropLine(c, key, value) ==
    IF key = "server" THEN SetKey(c, "_server", value)
    ELSE IF key = "port" THEN SetKey(c, "_port", value)
    ELSE IF key = "protocol" THEN SetKey(c, "_protocol", value)
    ELSE IF key = "roleId" /\ ~Truthy(c["role_id"]) THEN SetKey(c, "role_id", value)
    ELSE IF key = "roleSecret" /\ ~Truthy(c["role_secret"])
        THEN SetKey(c, "role_secret", value)
    ELSE c

\* lines 113-162: one iteration of "for line in f"
ProcessLine(c, line) ==
    IF line.kind = "std" THEN StdLine(c, line.key, line.value)
    ELSE IF line.kind = "prop" THEN PropLine(c, line.key, line.value)
    ELSE c

RECURSIVE ProcessLines(_, _)
ProcessLines(c, ls) ==
    IF ls = <<>> THEN c ELSE ProcessLines(ProcessLine(c, Head(ls)), Tail(ls))

\* lines 164-173: synthesize the address, then drop the temporary keys
\* mutant: a server property always gives the address, explicit or not
BuildAddrFromServerAlways(c) ==
    LET built ==
          IF Truthy(DictGet(c, "_server", None))
          THEN SetKey(c, "addr",
                      DictGet(c, "_protocol", S("https")) \o S("://")
                      \o c["_server"] \o S(":") \o DictGet(c, "_port", S("8200")))
          ELSE c
    IN  Pop(Pop(Pop(built, "_server"), "_port"), "_protocol")

BuildAddr(c) ==
    LET built ==
          IF ~Truthy(c["addr"]) /\ Truthy(DictGet(c, "_server", None))
          THEN SetKey(c, "addr",
                      DictGet(c, "_protocol", S("https")) \o S("://")
                      \o c["_server"] \o S(":") \o DictGet(c, "_port", S("8200")))
          ELSE c
    IN  Pop(Pop(Pop(built, "_server"), "_port"), "_protocol")

\* mutant: a role id alone passes for AppRole material
AuthMissingIdOnly(c) == ~Truthy(c["token"]) /\ ~Truthy(c["role_id"])

\* mutant: the authentication material is not validated
AuthMissingNever(c) == FALSE

\* lines 177 and 188: the two validations, each ending in sys.exit(1)
AddrMissing(c) == ~Truthy(c["addr"])

AuthMissing(c) ==
    ~Truthy(c["token"]) /\ ~(Truthy(c["role_id"]) /\ Truthy(c["role_secret"]))

\* lines 195-198
Normalize(c) == [c EXCEPT !["addr"] = RStripSlash(c["addr"])]

(***************************************************************************)
(* Messages printed before sys.exit(1): the first line and the operator    *)
(* hint that follows it ("" when the code prints none).                    *)
(***************************************************************************)
Msg(m, h) == [msg |-> m, hint |-> h]
NoError == Msg("", "")

AddrNotConfigured == Msg("VAULT_ADDR not configured", "To set up credentials")
NoAuthConfigured  == Msg("No authentication configured", "Provide either")
LoginFailed       == Msg("AppRole login failed", "")
LoginSSLError     == Msg("SSL Error during AppRole login",
                         "If using self-signed certificates, set VAULT_SKIP_VERIFY=true")
ConnectionFailed  == Msg("Connection Error: Could not connect", "Possible causes")
NoValidAuth       == Msg("No valid authentication method available", "")
SSLFailed         == Msg("SSL Error",
                         "If using self-signed certificates, set VAULT_SKIP_VERIFY=true")
TimedOut          == Msg("Request timed out",
                         "Check network connectivity and Vault server status")
UncaughtTimeout   == Msg("Traceback: requests.exceptions.Timeout", "")
InvalidPath       == Msg("Invalid secret path", "Path should be like: secret/myapp/database")
KeyNotFound       == Msg("Key not found in secret", "Available keys")
DeniedRead        == Msg("Permission denied",
                         "Check that your token has read access to this path")
DeniedList        == Msg("Permission denied",
                         "Check that your token has list access to this path")

(***************************************************************************)
(* The backend as seen through the requests library: an outcome is an HTTP *)
(* response or one of the three exceptions the code names.                 *)
(***************************************************************************)
Http(status, body) == [kind |-> "http", status |-> status, body |-> body]
Raised(exc) == [kind |-> exc]
Exceptions == {Raised("SSLError"), Raised("ConnectionError"), Raised("Timeout")}

FailStatuses == {400, 403, 404, 500, 502, 503}

Secret1 == [password |-> S("p1")]
Secret2 == [password |-> S("p2"), user |-> S("u2")]

\* bodies of a successful read: empty, V1 layout, V2 layout
GetBodies ==
    {EmptyDict, [data |-> EmptyDict], [data |-> Secret1], [data |-> Secret2],
     [data |-> [data |-> Secret1]], [data |-> [data |-> Secret2]]}

\* bodies of a successful LIST
ListBodies ==
    {EmptyDict, [data |-> EmptyDict], [data |-> [keys |-> <<>>]],
     [data |-> [keys |-> <<"db", "sub/">>]]}

SealBodies == {EmptyDict, [sealed |-> TRUE], [sealed |-> FALSE]}

TokenInfo == [accessor |-> S("acc"), policies |-> <<"default">>, ttl |-> 3600,
              renewable |-> TRUE]
LookupBodies == {EmptyDict, [data |-> TokenInfo]}

LoginBodies == {EmptyDict, [auth |-> EmptyDict],
                [auth |-> [client_token |-> EmptyStr]],
                [auth |-> [client_token |-> S("tl")]]}

Outcomes(okBodies) ==
    {Http(200, b) : b \in okBodies} \cup {Http(st, EmptyDict) : st \in FailStatuses}
    \cup Exceptions

(***************************************************************************)
(* make_request (lines 259-307).                                           *)
(***************************************************************************)
\* lines 261-271: the request as sent
Request(c, method, path) ==
    [method |-> method,
     url |-> c["addr"] \o <<"/", "v1", "/">> \o LStripSlash(path),
     headers |-> IF Truthy(c["namespace"])
                 THEN [token |-> c["token"], namespace |-> c["namespace"]]
                 ELSE [token |-> c["token"]],
     verify |-> ~c["skip_verify"]]

\* mutant: every HTTP response counts as a success
ApiResultAlwaysOk(out) ==
    [status_code |-> out.status, data |-> out.body, ok |-> TRUE]

\* no make_request has returned
NoApi == EmptyDict

\* lines 284-288: the uniform result of an HTTP response (response.ok is
\* "status below 400")
ApiResult(out) ==
    [status_code |-> out.status, data |-> out.body, ok |-> out.status < 400]

\* lines 290-307: the message of each caught exception
TransportMsg(out) ==
    IF out.kind = "SSLError" THEN SSLFailed
    ELSE IF out.kind = "ConnectionError" THEN ConnectionFailed
    ELSE TimedOut

(***************************************************************************)
(* The ways a function of main ends or goes on.                            *)
(***************************************************************************)
NoResult == EmptyDict
Exit(e)      == [pc |-> "failed",   result |-> NoResult, error |-> e]
Return(v)    == [pc |-> "returned", result |-> v,        error |-> NoError]
Continue(at) == [pc |-> at,         result |-> NoResult, error |-> NoError]

\* handle_error (lines 461-486)
handle_error(r) ==
    LET status == r.status_code IN
    IF status = 400 THEN Exit(Msg("Bad request", ""))
    ELSE IF status = 403
        THEN Exit(Msg("Permission denied",
                      "Check that your token has the required permissions"))
    ELSE IF status = 404
        THEN Exit(Msg("Secret not found", "Check that the path is correct"))
    ELSE IF status = 500
        THEN Exit(Msg("Vault internal error", "Check Vault server logs for details"))
    ELSE IF status = 503
        THEN Exit(Msg("Vault is sealed",
                      "The Vault server needs to be unsealed by an administrator"))
    ELSE Exit(Msg("Error (status)", ""))

(***************************************************************************)
(* approle_login (lines 201-239) and ensure_token (lines 242-256).         *)
(***************************************************************************)
\* lines 203-217: the login request as sent
LoginRequest(c) ==
    [method |-> "POST",
     url |-> c["addr"] \o <<"/", "v1", "/", "auth", "/", "approle", "/", "login">>,
     headers |-> IF Truthy(DictGet(c, "namespace", None))
                 THEN [namespace |-> c["namespace"]] ELSE EmptyDict,
     verify |-> ~DictGet(c, "skip_verify", FALSE),
     json |-> [role_id |-> c["role_id"], secret_id |-> c["role_secret"]]]

\* lines 219-221: the token of a successful login response
ClientToken(body) == DictGet(DictGet(body, "auth", EmptyDict), "client_token", None)

\* mutant: whatever a successful login response holds is taken as the token
AfterLoginAcceptsNoToken(c, out) ==
    IF out.kind = "SSLError" THEN Exit(LoginSSLError)
    ELSE IF out.kind = "ConnectionError" THEN Exit(ConnectionFailed)
    ELSE IF out.kind = "Timeout" THEN Exit(UncaughtTimeout)
    ELSE IF out.status < 400 THEN Continue("authed")
    ELSE Exit(LoginFailed)

\* lines 250-256 after approle_login returned or exited; the except clauses
\* of approle_login catch SSLError and ConnectionError only
AfterLogin(c, out) ==
    IF out.kind = "SSLError" THEN Exit(LoginSSLError)
    ELSE IF out.kind = "ConnectionError" THEN Exit(ConnectionFailed)
    ELSE IF out.kind = "Timeout" THEN Exit(UncaughtTimeout)
    ELSE IF out.status < 400
        THEN IF Truthy(ClientToken(out.body)) THEN Continue("authed")
             ELSE Exit(NoValidAuth)
    ELSE Exit(LoginFailed)

\* mutant: the token of the login is not kept
\* mutant: storing the token also clears the role secret
StoreTokenClearsSecret(c, token) ==
    SetKey(SetKey(c, "token", token), "role_secret", None)

StoreTokenDropped(c, token) == c

\* lines 251-252
StoreToken(c, token) == SetKey(c, "token", token)

\* mutant: the static token is not looked at
HasTokenNever(c) == FALSE

\* line 244
HasToken(c) == Truthy(DictGet(c, "token", None))
\* line 247
HasRolePair(c) ==
    Truthy(DictGet(c, "role_id", None)) /\ Truthy(DictGet(c, "role_secret", None))

(***************************************************************************)
(* get_secret (lines 310-380).                                             *)
(***************************************************************************)
Auto == S("auto")

\* lines 322-324 (and 393-394): the version to use
EffectiveKv(kvArg, c) ==
    IF kvArg = Auto THEN DictGet(c, "kv_version", Auto) ELSE kvArg

\* mutant: the V2 attempt is made whatever the version
TriesV2Always(kv) == TRUE

\* line 337 (and 401): the V2 attempt is made
TriesV2(kv) == kv \in {Auto, S("2")}
\* line 364 (and 418): the V1 attempt is made
TriesV1(kv) == kv \in {Auto, S("1")}

\* str.split("/")
RECURSIVE Split(_)
Split(s) ==
    IF \A i \in 1..Len(s) : s[i] # "/" THEN <<s>>
    ELSE LET i == CHOOSE j \in 1..Len(s) :
                      s[j] = "/" /\ \A k \in 1..(j - 1) : s[k] # "/"
         IN  <<SubSeq(s, 1, i - 1)>> \o Split(SubSeq(s, i + 1, Len(s)))

\* "/".join(parts)
RECURSIVE Join(_)
Join(parts) ==
    IF parts = <<>> THEN EmptyStr
    ELSE IF Len(parts) = 1 THEN parts[1]
    ELSE parts[1] \o S("/") \o Join(Tail(parts))

\* mutant: the path is split without stripping its outer slashes
PathPartsUnstripped(path) == Split(path)

\* line 327
PathParts(path) == Split(StripSlash(path))

\* lines 333-338
V2GetPath(path) ==
    PathParts(path)[1] \o <<"/", "data", "/">> \o Join(Tail(PathParts(path)))

\* lines 344-351 and 369-376: the key filter on the resolved data
\* mutant: a missing key gives an empty record instead of an error
KeyFilterMissingIsEmpty(data, key, version) ==
    IF key # "" /\ key \in DOMAIN data
    THEN Return([data |-> [k \in {key} |-> data[k]], version |-> version])
    ELSE IF key # "" THEN Return([data |-> EmptyDict, version |-> version])
    ELSE Return([data |-> data, version |-> version])

KeyFilter(data, key, version) ==
    IF key # ""
    THEN IF key \in DOMAIN data
         THEN Return([data |-> [k \in {key} |-> data[k]], version |-> version])
         ELSE Exit(KeyNotFound)
    ELSE Return([data |-> data, version |-> version])

\* mutant: in auto mode every failed V2 read falls through to V1
GetV2OutcomeFallsBackOnAnyFailure(kv, key, out) ==
    IF out.kind # "http" THEN Exit(TransportMsg(out))
    ELSE LET r == ApiResult(out) IN
         IF r.ok
         THEN KeyFilter(DictGet(DictGet(r.data, "data", EmptyDict), "data", EmptyDict),
                        key, "2")
         ELSE IF kv = Auto THEN Continue("get_v1")
         ELSE IF r.status_code = 403 THEN Exit(DeniedRead)
         ELSE IF r.status_code # 404 THEN handle_error(r)
         ELSE Continue("get_v1")

\* mutant: in auto mode a 403 on the V2 read is taken for "wrong version" too
GetV2OutcomeFallsBackOn403(kv, key, out) ==
    IF out.kind # "http" THEN Exit(TransportMsg(out))
    ELSE LET r == ApiResult(out) IN
         IF r.ok
         THEN KeyFilter(DictGet(DictGet(r.data, "data", EmptyDict), "data", EmptyDict),
                        key, "2")
         ELSE IF kv = Auto /\ r.status_code \in {403, 404} THEN Continue("get_v1")
         ELSE IF r.status_code = 403 THEN Exit(DeniedRead)
         ELSE IF r.status_code # 404 THEN handle_error(r)
         ELSE Continue("get_v1")

\* mutant: in auto mode a 500 on the V2 read is taken for "wrong version" too
GetV2OutcomeFallsBackOn500(kv, key, out) ==
    IF out.kind # "http" THEN Exit(TransportMsg(out))
    ELSE LET r == ApiResult(out) IN
         IF r.ok
         THEN KeyFilter(DictGet(DictGet(r.data, "data", EmptyDict), "data", EmptyDict),
                        key, "2")
         ELSE IF kv = Auto /\ r.status_code \in {404, 500} THEN Continue("get_v1")
         ELSE IF r.status_code = 403 THEN Exit(DeniedRead)
         ELSE IF r.status_code # 404 THEN handle_error(r)
         ELSE Continue("get_v1")

\* lines 341-361: what get_secret does with the outcome of the V2 request
GetV2Outcome(kv, key, out) ==
    IF out.kind # "http" THEN Exit(TransportMsg(out))
    ELSE LET r == ApiResult(out) IN
         IF r.ok
         THEN KeyFilter(DictGet(DictGet(r.data, "data", EmptyDict), "data", EmptyDict),
                        key, "2")
         ELSE IF kv = Auto /\ r.status_code = 404 THEN Continue("get_v1")
         ELSE IF r.status_code = 403 THEN Exit(DeniedRead)
         ELSE IF r.status_code # 404 THEN handle_error(r)
         ELSE Continue("get_v1")

\* lines 367-378: what get_secret does with the outcome of the V1 request
GetV1Outcome(key, out) ==
    IF out.kind # "http" THEN Exit(TransportMsg(out))
    ELSE LET r == ApiResult(out) IN
         IF r.ok THEN KeyFilter(DictGet(r.data, "data", EmptyDict), key, "1")
         ELSE handle_error(r)

\* line 380
UnknownVersion == Return([data |-> EmptyDict, version |-> "unknown"])

(***************************************************************************)
(* list_secrets (lines 383-426).                                           *)
(***************************************************************************)
\* lines 396-402
V2ListPath(path) ==
    LET parts == PathParts(path)
        list_path == IF Len(parts) > 1 THEN Join(Tail(parts)) ELSE EmptyStr
    IN  RStripSlash(parts[1] \o <<"/", "metadata", "/">> \o list_path)

\* lines 406 and 422
ListKeys(r) == DictGet(DictGet(r.data, "data", EmptyDict), "keys", <<>>)

\* mutant: in auto mode a 403 on the V2 LIST is taken for "wrong version" too
ListV2OutcomeFallsBackOn403(kv, out) ==
    IF out.kind # "http" THEN Exit(TransportMsg(out))
    ELSE LET r == ApiResult(out) IN
         IF r.ok THEN Return(ListKeys(r))
         ELSE IF kv = Auto /\ r.status_code \in {403, 404} THEN Continue("list_v1")
         ELSE IF r.status_code = 403 THEN Exit(DeniedList)
         ELSE IF r.status_code # 404 THEN handle_error(r)
         ELSE Continue("list_v1")

\* mutant: in auto mode every failed V2 LIST falls through to V1
ListV2OutcomeFallsBackOnAnyFailure(kv, out) ==
    IF out.kind # "http" THEN Exit(TransportMsg(out))
    ELSE LET r == ApiResult(out) IN
         IF r.ok THEN Return(ListKeys(r))
         ELSE IF kv = Auto THEN Continue("list_v1")
         ELSE IF r.status_code = 403 THEN Exit(DeniedList)
         ELSE IF r.status_code # 404 THEN handle_error(r)
         ELSE Continue("list_v1")

\* lines 405-415
ListV2Outcome(kv, out) ==
    IF out.kind # "http" THEN Exit(TransportMsg(out))
    ELSE LET r == ApiResult(out) IN
         IF r.ok THEN Return(ListKeys(r))
         ELSE IF kv = Auto /\ r.status_code = 404 THEN Continue("list_v1")
         ELSE IF r.status_code = 403 THEN Exit(DeniedList)
         ELSE IF r.status_code # 404 THEN handle_error(r)
         ELSE Continue("list_v1")

\* lines 421-424
ListV1Outcome(out) ==
    IF out.kind # "http" THEN Exit(TransportMsg(out))
    ELSE LET r == ApiResult(out) IN
         IF r.ok THEN Return(ListKeys(r)) ELSE handle_error(r)

(***************************************************************************)
(* check_status (lines 429-458).                                           *)
(***************************************************************************)
\* mutant: a failed seal probe is passed over and the self-lookup is sent
SealOutcomeIgnoresFailure(out) ==
    IF out.kind # "http" THEN Exit(TransportMsg(out))
    ELSE Continue("status_lookup")

\* lines 432-436
SealOutcome(out) ==
    IF out.kind # "http" THEN Exit(TransportMsg(out))
    ELSE IF ~ApiResult(out).ok
        THEN Return([connected |-> FALSE, error |-> "Could not reach Vault"])
    ELSE Continue("status_lookup")

\* mutant: a failed self-lookup is handled as an error of the command
LookupOutcomeFails(seal_status, out) ==
    IF out.kind # "http" THEN Exit(TransportMsg(out))
    ELSE LET r == ApiResult(out)
             token_info == DictGet(r.data, "data", EmptyDict)
         IN  IF ~r.ok THEN handle_error(r)
             ELSE Return([connected |-> TRUE,
                          sealed |-> DictGet(seal_status, "sealed", FALSE),
                          authenticated |-> TRUE,
                          token_accessor |-> DictGet(token_info, "accessor", EmptyStr),
                          token_policies |-> DictGet(token_info, "policies", <<>>),
                          token_ttl |-> DictGet(token_info, "ttl", 0),
                          token_renewable |-> DictGet(token_info, "renewable", FALSE)])

\* lines 439-458
LookupOutcome(seal_status, out) ==
    IF out.kind # "http" THEN Exit(TransportMsg(out))
    ELSE LET r == ApiResult(out)
             token_info == DictGet(r.data, "data", EmptyDict)
         IN  IF ~r.ok
             THEN Return([connected |-> TRUE,
                          sealed |-> DictGet(seal_status, "sealed", FALSE),
                          authenticated |-> FALSE,
                          error |-> "Token invalid or expired"])
             ELSE Return([connected |-> TRUE,
                          sealed |-> DictGet(seal_status, "sealed", FALSE),
                          authenticated |-> TRUE,
                          token_accessor |-> DictGet(token_info, "accessor", EmptyStr),
                          token_policies |-> DictGet(token_info, "policies", <<>>),
                          token_ttl |-> DictGet(token_info, "ttl", 0),
                          token_renewable |-> DictGet(token_info, "renewable", FALSE)])

(***************************************************************************)
(* Masking and the output formats (lines 489-540).  A printed line is the  *)
(* pair of its key text and its value text; the layout around the two      *)
(* (padding, quotes, braces, "export") is left out.                        *)
(***************************************************************************)
Stars(n) == [i \in 1..n |-> "*"]

\* mutant: a value of exactly four characters takes the long-value branch
mask_valueShortShown(value, show) ==
    IF show THEN value
    ELSE IF Len(value) < 4 THEN Stars(4)
    ELSE SubSeq(value, 1, 2) \o Stars(Len(value) - 4)
            \o SubSeq(value, Len(value) - 1, Len(value))

\* lines 489-495
mask_value(value, show) ==
    IF show THEN value
    ELSE IF Len(value) <= 4 THEN <<"*", "*", "*", "*">>
    ELSE SubSeq(value, 1, 2) \o Stars(Len(value) - 4)
            \o SubSeq(value, Len(value) - 1, Len(value))

\* the keys of the secrets of the model, in the order sorted() gives them
KeyOrder == <<"data", "password", "user">>
SortedKeys(data) == SelectSeq(KeyOrder, LAMBDA k : k \in DOMAIN data)

\* str(value): a string is itself; the one value of the model that is not a
\* string is the dict under "data" (a V2 body read in the V1 layout), whose
\* text is "{'key': 'value', ...}"
RECURSIVE ReprItems(_, _)
ReprItems(d, keys) ==
    IF keys = <<>> THEN <<>>
    ELSE <<Head(keys), ":">> \o d[Head(keys)]
            \o (IF Tail(keys) = <<>> THEN <<>> ELSE <<",">>)
            \o ReprItems(d, Tail(keys))
Str(key, value) ==
    IF key = "data" THEN <<"{">> \o ReprItems(value, SortedKeys(value)) \o <<"}">>
    ELSE value

OutLine(key, value) == [key |-> key, value |-> value]

\* lines 498-510
format_table(data, show) ==
    IF data = EmptyDict THEN <<OutLine("*No data*", EmptyStr)>>
    ELSE [i \in 1..Len(SortedKeys(data)) |->
             LET key == SortedKeys(data)[i] IN
                 OutLine(key, mask_value(Str(key, data[key]), show))]

\* mutant: the JSON format prints the values as they are
format_json_outputUnmasked(data, show) ==
    [i \in 1..Len(SortedKeys(data)) |->
        LET key == SortedKeys(data)[i] IN OutLine(key, data[key])]

\* lines 513-519 (json.dumps keeps a nested value as it is under --show)
format_json_output(data, show) ==
    [i \in 1..Len(SortedKeys(data)) |->
        LET key == SortedKeys(data)[i] IN
            IF show THEN OutLine(key, data[key])
            ELSE OutLine(key, mask_value(Str(key, data[key]), FALSE))]

\* line 526: key.upper() with '-' and '.' replaced by '_'
EnvKey(key) ==
    CASE key = "data"     -> "DATA"
      [] key = "password" -> "PASSWORD"
      [] key = "user"     -> "USER"
      [] OTHER            -> key

\* lines 522-529
format_env(data, show) ==
    [i \in 1..Len(SortedKeys(data)) |->
        LET key == SortedKeys(data)[i] IN
            OutLine(EnvKey(key), mask_value(Str(key, data[key]), show))]

\* lines 532-540: the text, or <<>> when the error branch is taken
format_raw(data, key) ==
    IF Cardinality(DOMAIN data) = 1
    THEN <<OutLine("", Str(CHOOSE k \in DOMAIN data : TRUE,
                           data[CHOOSE k \in DOMAIN data : TRUE]))>>
    ELSE IF key # "" /\ key \in DOMAIN data THEN <<OutLine("", Str(key, data[key]))>>
    ELSE <<>>

(***************************************************************************)
(* What main prints and how it exits once the command's function has       *)
(* returned (lines 606-680).                                               *)
(***************************************************************************)
Formats == {"table", "json", "env", "raw"}

Printed(code, text, format, show) ==
    [code |-> code, text |-> text, format |-> format, show |-> show]
NoOutput == Printed(0, <<>>, "", FALSE)

\* lines 644-665
GetOutput(data, key, format, show) ==
    IF data = EmptyDict
    THEN Printed(1, <<OutLine("No data found at this path", EmptyStr)>>, format, show)
    ELSE IF format = "table" THEN Printed(0, format_table(data, show), format, show)
    ELSE IF format = "json" THEN Printed(0, format_json_output(data, show), format, show)
    ELSE IF format = "env" THEN Printed(0, format_env(data, show), format, show)
    ELSE IF format_raw(data, key) = <<>>
        THEN Printed(1, <<OutLine("Error: --format raw requires a single key (use --key)",
                                  EmptyStr)>>, format, show)
    ELSE Printed(0, format_raw(data, key), format, show)

\* mutant: an empty listing ends the command with exit status 1
ListOutputEmptyFails(secrets) ==
    IF secrets = <<>> THEN Printed(1, <<"No secrets found at this path">>, "", FALSE)
    ELSE Printed(0, secrets, "", FALSE)

\* lines 667-680 (the listing of the model is already in sorted order)
ListOutput(secrets) ==
    IF secrets = <<>> THEN Printed(0, <<"No secrets found at this path">>, "", FALSE)
    ELSE Printed(0, secrets, "", FALSE)

\* lines 606-640
StatusOutput(status) ==
    IF ~status.connected THEN Printed(1, <<"Connection: FAILED">>, "", FALSE)
    ELSE IF status.sealed THEN Printed(1, <<"Connection: OK", "Sealed: Yes">>, "", FALSE)
    ELSE IF ~status.authenticated
        THEN Printed(1, <<"Connection: OK", "Sealed: No", "Authentication: FAILED">>,
                     "", FALSE)
    ELSE Printed(0, <<"Connection: OK", "Sealed: No", "Authentication: OK">>, "", FALSE)

(***************************************************************************)
(* Inputs of one invocation.                                               *)
(***************************************************************************)
NoArgs == [command |-> "", path |-> EmptyStr, key |-> "", kv_version |-> EmptyStr]
NoInput == [env |-> None, environ |-> EmptyDict, fs |-> EmptyDict]

\* secret paths given on the command line
Paths == {<<"secret", "/", "app">>, <<"/", "secret", "/", "app", "/", "db", "/">>,
          <<"/", "secret", "/">>}
\* --key ("" when absent)
Keys == {"", "password", "user"}
\* --kv-version choices (lines 581 and 588)
KvChoices == {S("1"), S("2"), Auto}

\* process environments and credential-file lines of a whole invocation
MainEnvs ==
    {pe \in ProcEnvs :
        /\ pe["VAULT_NAMESPACE"] = None /\ pe["VAULT_SKIP_VERIFY"] = None
        /\ pe["VAULT_ROLE_ID"] = None /\ pe["VAULT_ROLE_SECRET"] = None
        /\ pe["VAULT_KV_VERSION"] = None}

MainLines ==
    {[kind |-> "std", key |-> "VAULT_ADDR", value |-> <<"he", "/">>],
     Line("std", "VAULT_TOKEN", "te"), Line("std", "VAULT_ROLE_ID", "rf"),
     Line("std", "VAULT_ROLE_SECRET", "xf"), Line("std", "VAULT_KV_VERSION", "1"),
     Line("std", "VAULT_KV_VERSION", "3"), Line("prop", "server", "srv"),
     Line("skip", "", "")}

(***************************************************************************)
(* The invocation as a state machine: main (lines 543-680).                *)
(***************************************************************************)
Init ==
    /\ pc = "start"
    /\ given = NoInput
    /\ creds = EmptyDict
    /\ args = NoArgs
    /\ requests = <<>>
    /\ responses = <<>>
    /\ seal = EmptyDict
    /\ result = NoResult
    /\ error = NoError
    /\ output = NoOutput
    /\ api = NoApi

\* a request goes out and the requests library answers (or raises)
Send(req, out) ==
    /\ requests' = Append(requests, req)
    /\ responses' = Append(responses, out)

\* lines 259-307: make_request sends the request and returns the uniform
\* result of an HTTP response; a caught exception ends the process inside it
make_request(c, method, path, out) ==
    /\ Send(Request(c, method, path), out)
    /\ api' = IF out.kind = "http" THEN ApiResult(out) ELSE NoApi

Apply(step) ==
    /\ pc' = step.pc
    /\ result' = step.result
    /\ error' = step.error

\* lines 601 and 79-111: load_credentials up to the opening of the file
LoadStart ==
    /\ pc = "start"
    /\ \E env \in EnvTags, pe \in MainEnvs :
          creds' = InitialCreds(env, pe)
    /\ pc' = "read"
    /\ UNCHANGED <<api, output, given, args, requests, responses, seal, result, error>>

\* lines 113-162: one line of the credential file (no line when no candidate
\* file exists)
ReadLine ==
    /\ pc = "read"
    /\ \E line \in MainLines : creds' = ProcessLine(creds, line)
    /\ UNCHANGED <<api, output, pc, given, args, requests, responses, seal, result, error>>

\* lines 164-198: end of the file, address synthesis, validation
Validated(merged) ==
    IF AddrMissing(merged) THEN Exit(AddrNotConfigured)
    ELSE IF AuthMissing(merged) THEN Exit(NoAuthConfigured)
    ELSE Continue("loaded")

LoadFinish ==
    /\ pc = "read"
    /\ LET merged == BuildAddr(creds) IN
          /\ Apply(Validated(merged))
          /\ creds' = IF Validated(merged).pc = "loaded" THEN Normalize(merged)
                      ELSE merged
    /\ UNCHANGED <<api, output, given, args, requests, responses, seal>>

\* lines 68-198 as one function of the tag, the process environment and the
\* files that exist
load_credentials(env, pe, fs) ==
    LET file   == FirstExisting(get_credential_paths(env), fs)
        read   == IF file = <<>> THEN InitialCreds(env, pe)
                  ELSE ProcessLines(InitialCreds(env, pe), fs[file[1]])
        merged == BuildAddr(read)
    IN  [step |-> Validated(merged),
         creds |-> IF Validated(merged).pc = "loaded" THEN Normalize(merged)
                   ELSE merged]

\* line 601, load_credentials in one step on the inputs of InitResolve
LoadGiven ==
    /\ pc = "given"
    /\ LET r == load_credentials(given.env, given.environ, given.fs) IN
          /\ Apply(r.step)
          /\ creds' = r.creds
    /\ UNCHANGED <<api, output, given, args, requests, responses, seal>>

\* line 604: ensure_token, with approle_login when it is called
EnsureToken ==
    /\ pc = "loaded"
    /\ IF HasToken(creds)
       THEN /\ Apply(Continue("authed"))
            /\ UNCHANGED <<creds, requests, responses>>
       ELSE IF HasRolePair(creds)
       THEN \E out \in Outcomes(LoginBodies) :
               /\ Send(LoginRequest(creds), out)
               /\ Apply(AfterLogin(creds, out))
               /\ creds' = IF AfterLogin(creds, out).pc = "authed"
                           THEN StoreToken(creds, ClientToken(out.body))
                           ELSE creds
       ELSE /\ Apply(Exit(NoValidAuth))
            /\ UNCHANGED <<creds, requests, responses>>
    /\ UNCHANGED <<api, output, given, args, seal>>

\* lines 642-643 and 322-361: get_secret up to the end of the V2 attempt
GetSecretV2 ==
    /\ pc = "authed"
    /\ \E path \in Paths, key \in Keys, kvArg \in KvChoices :
          LET kv == EffectiveKv(kvArg, creds) IN
          /\ args' = [command |-> "get", path |-> path, key |-> key,
                      kv_version |-> kvArg]
          /\ IF Len(PathParts(path)) < 2
             THEN Apply(Exit(InvalidPath)) /\ UNCHANGED <<requests, responses, api>>
             ELSE IF TriesV2(kv)
             THEN \E out \in Outcomes(GetBodies) :
                     /\ make_request(creds, "GET", V2GetPath(path), out)
                     /\ Apply(GetV2Outcome(kv, key, out))
             ELSE Apply(Continue("get_v1")) /\ UNCHANGED <<requests, responses, api>>
    /\ UNCHANGED <<output, given, creds, seal>>

\* lines 363-380: the V1 attempt of get_secret and its last line
GetSecretV1 ==
    /\ pc = "get_v1"
    /\ IF TriesV1(EffectiveKv(args.kv_version, creds))
       THEN \E out \in Outcomes(GetBodies) :
               /\ make_request(creds, "GET", args.path, out)
               /\ Apply(GetV1Outcome(args.key, out))
       ELSE Apply(UnknownVersion) /\ UNCHANGED <<requests, responses, api>>
    /\ UNCHANGED <<output, given, creds, args, seal>>

\* lines 667-668 and 393-415: list_secrets up to the end of the V2 attempt
ListSecretsV2 ==
    /\ pc = "authed"
    /\ \E path \in Paths, kvArg \in KvChoices :
          LET kv == EffectiveKv(kvArg, creds) IN
          /\ args' = [command |-> "list", path |-> path, key |-> "",
                      kv_version |-> kvArg]
          /\ IF TriesV2(kv)
             THEN \E out \in Outcomes(ListBodies) :
                     /\ make_request(creds, "LIST", V2ListPath(path), out)
                     /\ Apply(ListV2Outcome(kv, out))
             ELSE Apply(Continue("list_v1")) /\ UNCHANGED <<requests, responses, api>>
    /\ UNCHANGED <<output, given, creds, seal>>

\* lines 417-426: the V1 attempt of list_secrets and its last line
ListSecretsV1 ==
    /\ pc = "list_v1"
    /\ IF TriesV1(EffectiveKv(args.kv_version, creds))
       THEN \E out \in Outcomes(ListBodies) :
               /\ make_request(creds, "LIST", RStripSlash(args.path), out)
               /\ Apply(ListV1Outcome(out))
       ELSE Apply(Return(<<>>)) /\ UNCHANGED <<requests, responses, api>>
    /\ UNCHANGED <<output, given, creds, args, seal>>

\* lines 606-607 and 432-436: the seal probe of check_status
StatusSeal ==
    /\ pc = "authed"
    /\ args' = [NoArgs EXCEPT !.command = "status"]
    /\ \E out \in Outcomes(SealBodies) :
          /\ make_request(creds, "GET", <<"sys", "/", "seal-status">>, out)
          /\ Apply(SealOutcome(out))
          /\ seal' = IF SealOutcome(out).pc = "status_lookup" THEN out.body
                     ELSE seal
    /\ UNCHANGED <<output, given, creds>>

\* lines 438-458: the token self-lookup of check_status
StatusLookup ==
    /\ pc = "status_lookup"
    /\ \E out \in Outcomes(LookupBodies) :
          /\ make_request(creds, "GET", <<"auth", "/", "token", "/", "lookup-self">>, out)
          /\ Apply(LookupOutcome(seal, out))
    /\ UNCHANGED <<output, given, creds, args, seal>>

\* lines 606-680: main prints what the command's function returned and exits
Output ==
    /\ pc = "returned"
    /\ \E format \in Formats, show \in BOOLEAN :
          output' = IF args.command = "get"
                        THEN GetOutput(result.data, args.key, format, show)
                    ELSE IF args.command = "list" THEN ListOutput(result)
                    ELSE StatusOutput(result)
    /\ pc' = "printed"
    /\ UNCHANGED <<api, given, creds, args, requests, responses, seal, result, error>>

Next ==
    \/ LoadStart
    \/ ReadLine
    \/ LoadFinish
    \/ EnsureToken
    \/ GetSecretV2
    \/ GetSecretV1
    \/ ListSecretsV2
    \/ ListSecretsV1
    \/ StatusSeal
    \/ StatusLookup
    \/ Output

Spec == Init /\ [][Next]_vars

(***************************************************************************)
(* load_credentials alone, on every tag, environment and file system of    *)
(* the bounded input sets.                                                 *)
(***************************************************************************)
\* the files that exist: the first candidate (absent, or any file of at most
\* MaxLines lines) and any of the later candidates
FileSystems(env) ==
    LET paths == get_credential_paths(env)
        first == {EmptyDict} \cup {[p \in {paths[1]} |-> f] : f \in Files(MaxLines)}
        later == {[p \in {paths[i] : i \in is} |->
                      LaterFile(CHOOSE i \in is : paths[i] = p)] :
                  is \in SUBSET (2..Len(paths))}
    IN  {a @@ b : a \in first, b \in later}

InitResolve ==
    /\ pc = "given"
    /\ \E env \in EnvTags, pe \in ResolveEnvs :
          \E fs \in FileSystems(env) :
             given = [env |-> env, environ |-> pe, fs |-> fs]
    /\ creds = EmptyDict
    /\ args = NoArgs
    /\ requests = <<>>
    /\ responses = <<>>
    /\ seal = EmptyDict
    /\ result = NoResult
    /\ error = NoError
    /\ output = NoOutput
    /\ api = NoApi

NextResolve == LoadGiven

ResolveSpec == InitResolve /\ [][NextResolve]_vars

(***************************************************************************)
(* The output stage of get alone (lines 644-665), on every secret of the   *)
(* bounded value set, every format and both settings of --show.            *)
(***************************************************************************)
ValueChars == {"a", "b"}
Values(n) == UNION {[1..k -> ValueChars] : k \in 0..n}

\* what get_secret may have returned as data: nothing, one key, two keys
SecretMaps ==
    {EmptyDict}
        \cup {[password |-> v] : v \in Values(MaxValueLen)}
        \cup {[password |-> v, user |-> w] :
                 v \in Values(MaxValueLen), w \in {<<"a", "b">>, <<"b", "a", "b", "a", "a">>}}

InitOutput ==
    /\ pc = "returned"
    /\ \E data \in SecretMaps, key \in Keys :
          /\ key # "" => DOMAIN data = {key}
          /\ args = [command |-> "get", path |-> <<"secret", "/", "app">>,
                     key |-> key, kv_version |-> Auto]
          /\ result = [data |-> data, version |-> S("2")]
    /\ given = NoInput
    /\ creds = EmptyDict
    /\ requests = <<>>
    /\ responses = <<>>
    /\ seal = EmptyDict
    /\ error = NoError
    /\ output = NoOutput
    /\ api = NoApi

NextOutput == Output

OutputSpec == InitOutput /\ [][NextOutput]_vars

(***************************************************************************)
(* Vocabulary of the properties.                                           *)
(***************************************************************************)
\* the error taxonomy: the class each printed message stands for
ErrorClass(e) ==
    IF e \in {AddrNotConfigured, NoAuthConfigured} THEN "ConfigurationError"
    ELSE IF e = LoginFailed THEN "AuthenticationError"
    ELSE IF e.msg = "Permission denied" THEN "PermissionError"
    ELSE IF e \in {Msg("Secret not found", "Check that the path is correct"),
                   KeyNotFound} THEN "NotFoundError"
    ELSE IF e.msg = "Vault is sealed" THEN "SealedError"
    ELSE IF e.msg = "Vault internal error" THEN "ServerError"
    ELSE IF e \in {SSLFailed, LoginSSLError, ConnectionFailed, TimedOut}
        THEN "TransportError"
    ELSE "Unclassified"

Atoms(s) == {s[i] : i \in 1..Len(s)}

IsLogin(r) == r.method = "POST" /\ "login" \in Atoms(r.url)
\* a read in the V2 layout (mount/data/subpath) and in the V1 layout
IsV2Get(r) == r.method = "GET" /\ "data" \in Atoms(r.url)
IsV1Get(r) == r.method = "GET" /\ Atoms(r.url) \cap {"data", "sys", "auth"} = {}
IsLookup(r) == r.method = "GET" /\ "lookup-self" \in Atoms(r.url)
IsSealProbe(r) == r.method = "GET" /\ "seal-status" \in Atoms(r.url)

\* the requests sent to the secret engine or the status endpoints: those
\* after the login request, if there was one
Sent == 1..Len(requests)
Logins == {i \in Sent : IsLogin(requests[i])}
NumEngine == Len(requests) - Cardinality(Logins)
EngineReq(k) == requests[Cardinality(Logins) + k]
EngineResp(k) == responses[Cardinality(Logins) + k]

\* the command's function has returned to main (which then prints and exits)
Returned == pc \in {"returned", "printed"}
Terminated == Returned \/ pc = "failed"
IsHttp(out, status) == out.kind = "http" /\ out.status = status
IsOk(out) == out.kind = "http" /\ out.status < 400

\* the effective version preference: the command line's, and the credential
\* record's when the command line leaves it at auto
GetKv == IF args.kv_version # Auto THEN args.kv_version ELSE creds["kv_version"]

\* C1: with an environment tag, load_credentials gives the same outcome under
\* every process environment, and the built-in defaults when no tagged file
\* exists.
C1_TagIgnoresEnvironment ==
    (pc # "given" /\ Truthy(given.env)) =>
        /\ \A pe \in ResolveEnvs :
              load_credentials(given.env, pe, given.fs)
                  = [step |-> [pc |-> pc, result |-> result, error |-> error],
                     creds |-> creds]
        /\ (DOMAIN given.fs = {} => creds = FreshCreds(given.env))

\* a tagged resolution that succeeded from the file while the environment set
\* another token and another address
C1_Witness ==
    /\ pc = "loaded" /\ Truthy(given.env)
    /\ given.environ["VAULT_TOKEN"] = S("te") /\ given.environ["VAULT_ADDR"] = S("he")
    /\ creds["token"] = S("tf") /\ creds["addr"] = S("hf")

\* C2: get in Auto mode sends the V2 read first; a successful V2 read ends the
\* operation with version "2" and the doubly nested data, and no V1 read; a
\* V1 read is sent only after a 404 on the V2 read, and its success gives
\* version "1" after exactly two reads.
C2_AutoV2ThenV1 ==
    (args.command = "get" /\ GetKv = Auto) =>
        /\ NumEngine <= 2
        /\ NumEngine >= 1 => IsV2Get(EngineReq(1))
        /\ NumEngine = 2 => (IsV1Get(EngineReq(2)) /\ IsHttp(EngineResp(1), 404))
        /\ (NumEngine = 1 /\ IsHttp(EngineResp(1), 404)) => pc = "get_v1"
        /\ (NumEngine >= 1 /\ IsOk(EngineResp(1))) =>
              /\ NumEngine = 1
              /\ Terminated
              /\ Returned => result.version = "2"
              /\ pc = "failed" => (error = KeyNotFound /\ args.key # "")
              /\ \A sec \in {Secret1, Secret2} :
                    (EngineResp(1).body = [data |-> [data |-> sec]] /\ args.key = "")
                        => (Returned /\ result.data = sec)
        /\ (NumEngine = 2 /\ IsOk(EngineResp(2))) =>
              /\ Terminated
              /\ Returned => result.version = "1"
              /\ pc = "failed" => (error = KeyNotFound /\ args.key # "")

\* a V1 result after exactly one fallback
C2_Witness ==
    /\ args.command = "get" /\ GetKv = Auto /\ pc = "returned"
    /\ NumEngine = 2
    /\ result = [data |-> Secret1, version |-> "1"]
    /\ requests[Len(requests)].url = <<"he", "/", "v1", "/", "secret", "/", "app">>
    /\ requests[Len(requests) - 1].url =
          <<"he", "/", "v1", "/", "secret", "/", "data", "/", "app">>

\* C3: get with the explicit preference V1 sends no V2-layout read; it sends
\* exactly one V1 read, and a 404 on it ends the operation in a NotFoundError.
C3_ExplicitV1Only ==
    (args.command = "get" /\ GetKv = S("1")) =>
        /\ NumEngine <= 1
        /\ \A k \in 1..NumEngine : IsV1Get(EngineReq(k)) /\ ~IsV2Get(EngineReq(k))
        /\ (Terminated /\ error # InvalidPath) => NumEngine = 1
        /\ (NumEngine = 1 /\ IsHttp(EngineResp(1), 404)) =>
              (pc = "failed" /\ ErrorClass(error) = "NotFoundError")

\* --kv-version 1 on a path the backend does not have in the V1 layout
C3_Witness ==
    /\ args.command = "get" /\ args.kv_version = S("1") /\ pc = "failed"
    /\ NumEngine = 1 /\ IsHttp(EngineResp(1), 404)
    /\ EngineReq(1).url = <<"he", "/", "v1", "/", "secret", "/", "app">>
    /\ ErrorClass(error) = "NotFoundError"

\* C4: a 403 on the V2 read of get ends the operation at once in a
\* PermissionError, in Auto mode and with the explicit preference V2, and no
\* request follows it.
C4_V2ForbiddenIsTerminal ==
    args.command = "get" =>
        \A k \in 1..NumEngine :
            (IsV2Get(EngineReq(k)) /\ IsHttp(EngineResp(k), 403)) =>
                /\ k = NumEngine
                /\ pc = "failed"
                /\ ErrorClass(error) = "PermissionError"

\* a 403 on the V2 read in Auto mode
C4_Witness ==
    /\ args.command = "get" /\ GetKv = Auto /\ pc = "failed"
    /\ NumEngine = 1 /\ IsV2Get(EngineReq(1)) /\ IsHttp(EngineResp(1), 403)
    /\ error = DeniedRead

\* C5: get with the explicit preference V2 whose V2 read returns 404 sends no
\* V1 read and fails with a NotFoundError; it returns no record.
C5_ExplicitV2NotFoundFails ==
    (args.command = "get" /\ GetKv = S("2")
        /\ NumEngine >= 1 /\ IsHttp(EngineResp(1), 404)) =>
        /\ NumEngine = 1
        /\ ~Returned
        /\ pc = "failed" => ErrorClass(error) = "NotFoundError"

\* C6: status on a backend whose seal probe reports sealed=true returns
\* connected, sealed, not authenticated, and never sends the self-lookup.
C6_SealedSkipsLookup ==
    (args.command = "status" /\ NumEngine >= 1 /\ IsOk(EngineResp(1))
        /\ DictGet(EngineResp(1).body, "sealed", FALSE)) =>
        /\ \A k \in 1..NumEngine : ~IsLookup(EngineReq(k))
        /\ Returned =>
              (result.connected /\ result.sealed /\ ~result.authenticated)

\* the login is the first request, and later requests carry its token
C7_Inv ==
    /\ pc \in {"start", "read", "loaded"} => requests = <<>>
    /\ \A i \in Logins : i = 1
    /\ (Logins # {} /\ NumEngine >= 1) =>
          /\ IsOk(responses[1])
          /\ Truthy(ClientToken(responses[1].body))
          /\ creds["token"] = ClientToken(responses[1].body)
          /\ \A k \in 1..NumEngine :
                EngineReq(k).headers.token = ClientToken(responses[1].body)

C7_Step ==
    (pc = "loaded" /\ ~Truthy(creds["token"])
        /\ Truthy(creds["role_id"]) /\ Truthy(creds["role_secret"])) =>
        /\ Len(requests') = 1 /\ IsLogin(requests'[1])
        /\ requests'[1].json
              = [role_id |-> creds["role_id"], secret_id |-> creds["role_secret"]]
        /\ pc' \in {"authed", "failed"}
        /\ pc' = "authed" =>
              (IsOk(responses'[1]) /\ creds'["token"] = ClientToken(responses'[1].body))

\* C7: with a role pair and no static token, the first request of the
\* invocation is the AppRole login with that pair; the token it returns is
\* stored in the credential record and carried by every later request.
C7_LoginThenNegotiation == [](C7_Inv) /\ [][C7_Step]_vars

\* a get that logged in and went through V2 then V1 with the login's token
C7_Witness ==
    /\ args.command = "get" /\ pc = "returned" /\ Logins = {1} /\ NumEngine = 2
    /\ creds["token"] = S("tl") /\ creds["role_id"] = S("rf")
    /\ EngineReq(1).headers.token = S("tl") /\ EngineReq(2).headers.token = S("tl")

\* at most one login, first, and its rejection is terminal
C8_Inv ==
    /\ Cardinality(Logins) <= 1
    /\ Logins # {} => Logins = {1}
    /\ (Logins # {} /\ responses[1].kind = "http" /\ ~IsOk(responses[1])) =>
          /\ pc = "failed"
          /\ ErrorClass(error) = "AuthenticationError"
          /\ Len(requests) = 1

C8_Step ==
    /\ pc = "loaded" =>
          /\ (requests' # requests) <=> ~Truthy(creds["token"])
          /\ (requests' # requests) =>
                (Len(requests') = 1 /\ IsLogin(requests'[1]))
    /\ pc # "loaded" =>
          (Len(requests') > Len(requests) => ~IsLogin(requests'[Len(requests')]))

\* C8: ensure_token sends the AppRole login exactly when the resolved record
\* has no static token; there is at most one login per invocation, and a
\* non-success response to it ends the operation in an AuthenticationError
\* with no further request.
C8_LoginIffNoStaticToken == [](C8_Inv) /\ [][C8_Step]_vars

\* a login the backend rejected
C8_Witness ==
    /\ pc = "failed" /\ Logins = {1} /\ Len(requests) = 1
    /\ IsHttp(responses[1], 403) /\ error = LoginFailed

\* what the merged sources lack, read off the record before validation
NoAddressGiven(c) == ~Truthy(c["addr"]) /\ ~Truthy(DictGet(c, "_server", None))
NoAuthGiven(c) ==
    ~Truthy(c["token"]) /\ (~Truthy(c["role_id"]) \/ ~Truthy(c["role_secret"]))

C9_Inv ==
    ErrorClass(error) = "ConfigurationError" => (pc = "failed" /\ requests = <<>>)

C9_Step ==
    /\ (pc = "read" /\ pc' # "read" /\ (NoAddressGiven(creds) \/ NoAuthGiven(creds))) =>
          /\ pc' = "failed"
          /\ ErrorClass(error') = "ConfigurationError"
          /\ requests' = <<>>
    /\ pc = "failed" => (pc' = "failed" /\ requests' = requests)

\* C9: when the merged sources give no address (none explicit, no server
\* property) or neither a static token nor a complete role pair, resolution
\* ends in a ConfigurationError, and an invocation that ended so has sent no
\* request.
C9_FailsClosed == [](C9_Inv) /\ [][C9_Step]_vars

\* a role id without its secret, and an address
C9_Witness ==
    /\ pc = "failed" /\ error = NoAuthConfigured /\ requests = <<>>
    /\ Truthy(creds["addr"]) /\ Truthy(creds["role_id"])
    /\ ~Truthy(creds["role_secret"]) /\ ~Truthy(creds["token"])

\* the authentication material of the credential record
TokenPresent == Truthy(creds["token"])
PairPresent == Truthy(creds["role_id"]) /\ Truthy(creds["role_secret"])

\* C10 as stated: a resolved record has exactly one of a static token and a
\* complete role pair.
C10_ExactlyOneAuthMethod ==
    pc = "loaded" => (TokenPresent /\ ~PairPresent) \/ (~TokenPresent /\ PairPresent)

\* C10 as amended: a resolved record has at least one of a static token and a
\* complete role pair, and no request is sent on behalf of a record with
\* neither.
C10_AtLeastOneAuthMethod ==
    /\ pc = "loaded" => (TokenPresent \/ PairPresent)
    /\ requests # <<>> => (TokenPresent \/ PairPresent)
    /\ error = NoAuthConfigured => (requests = <<>> /\ ~TokenPresent /\ ~PairPresent)

\* a resolved record with both a static token and a complete role pair
C10_Witness ==
    /\ pc = "loaded" /\ TokenPresent /\ PairPresent /\ requests = <<>>

\* the Credentials field each VAULT_* variable supplies, and the value the
\* variable's text stands for in that field
EnvField(v) ==
    CASE v = "VAULT_ADDR"        -> "addr"
      [] v = "VAULT_TOKEN"       -> "token"
      [] v = "VAULT_ROLE_ID"     -> "role_id"
      [] v = "VAULT_ROLE_SECRET" -> "role_secret"
      [] v = "VAULT_NAMESPACE"   -> "namespace"
      [] v = "VAULT_SKIP_VERIFY" -> "skip_verify"
      [] v = "VAULT_KV_VERSION"  -> "kv_version"

KeptFromEnviron(v) ==
    IF v = "VAULT_SKIP_VERIFY"
    THEN creds["skip_verify"] = (given.environ[v] \in {S("true"), S("TRUE")})
    ELSE creds[EnvField(v)] = given.environ[v]

Resolved == pc \in {"loaded", "failed"}

\* C11: without a tag, every Credentials field the process environment
\* supplies keeps the environment's value once resolution is over; the
\* credential file fills only the fields the environment left unset.
C11_EnvironmentKept ==
    (Resolved /\ ~Truthy(given.env)) =>
        \A v \in EnvVars : given.environ[v] # None => KeptFromEnviron(v)

\* the candidate files that exist, by their position in the ordered list
Existing == {i \in 1..Len(get_credential_paths(given.env)) :
                get_credential_paths(given.env)[i] \in DOMAIN given.fs}
FirstIdx == CHOOSE i \in Existing : \A j \in Existing : i <= j
\* the file system with every candidate after the first existing one removed
FirstAlone ==
    IF Existing = {} THEN EmptyDict
    ELSE [p \in {get_credential_paths(given.env)[FirstIdx]} |-> given.fs[p]]

\* C12: resolution reads only the first existing candidate file: its outcome
\* (record, exit and message) is the one it has when no later candidate
\* exists, so no field is ever filled from a later file.
C12_ReadsOnlyFirstExisting ==
    Resolved =>
        LET r == load_credentials(given.env, given.environ, FirstAlone) IN
            /\ pc = r.step.pc
            /\ error = r.step.error
            /\ creds = r.creds

\* the first candidate gives an address and no token, a later candidate
\* holds a token, and resolution fails for want of authentication
C12_Witness ==
    /\ pc = "failed" /\ error = NoAuthConfigured
    /\ Cardinality(Existing) >= 2 /\ FirstIdx = 1
    /\ creds["addr"] = S("hf") /\ creds["token"] = None
    /\ \E i \in Existing :
          \E k \in 1..Len(given.fs[get_credential_paths(given.env)[i]]) :
             given.fs[get_credential_paths(given.env)[i]][k].key = "VAULT_TOKEN"

GetPrinted == pc = "printed" /\ args.command = "get" /\ output.code = 0

\* the mask as the contract words it, position by position
ContractMask(value, reveal) ==
    IF reveal THEN value
    ELSE IF Len(value) <= 4 THEN <<"*", "*", "*", "*">>
    ELSE [i \in 1..Len(value) |->
             IF i <= 2 \/ i > Len(value) - 2 THEN value[i] ELSE "*"]

\* C13: mask(value, reveal) returns the value unchanged under reveal; else a
\* value of at most four characters becomes "****" and a longer one keeps its
\* first two and last two characters around length-4 asterisks, at the
\* length of the input.  Checked on every value the table format prints.
C13_MaskContract ==
    (GetPrinted /\ output.format = "table") =>
        \A i \in 1..Len(output.text) :
            LET value == result.data[output.text[i].key] IN
                /\ output.text[i].value = ContractMask(value, output.show)
                /\ (Len(value) > 4 => Len(output.text[i].value) = Len(value))

\* a six-character value printed masked, and a two-character one as "****"
C13_Witness ==
    /\ GetPrinted /\ output.format = "table" /\ ~output.show
    /\ Len(output.text) = 2
    /\ result.data["password"] = <<"a", "b", "b", "a", "b", "a">>
    /\ output.text[1].value = <<"a", "b", "*", "*", "b", "a">>
    /\ result.data["user"] = <<"a", "b">>
    /\ output.text[2].value = <<"*", "*", "*", "*">>

\* a printed line that carries a secret value as it is stored
Unmasked(line) == \E k \in DOMAIN result.data : line.value = result.data[k]

\* C14: unless --show was given, no output format of get prints a secret
\* value in unmasked form.
C14_EveryFormatMasks ==
    (GetPrinted /\ ~output.show) =>
        \A i \in 1..Len(output.text) : ~Unmasked(output.text[i])

\* C14 (amended): unless --show was given, the table, JSON and
\* environment-export formats of get print no secret value in unmasked form.
C14_MaskedUnlessRaw ==
    (GetPrinted /\ ~output.show /\ output.format # "raw") =>
        \A i \in 1..Len(output.text) : ~Unmasked(output.text[i])

\* the JSON format prints a six-character value masked
C14_Witness ==
    /\ GetPrinted /\ ~output.show /\ output.format = "json"
    /\ result.data["password"] = <<"b", "a", "a", "a", "a", "b">>
    /\ output.text[1].value = <<"b", "a", "*", "*", "a", "b">>

\* the key/value data a successful read carries: under data.data for a
\* request in the V2 layout, under data for one in the V1 layout
Resolved1(body) == IF "data" \in DOMAIN body THEN body["data"] ELSE EmptyDict
ResolvedData(k) ==
    IF IsV2Get(EngineReq(k)) THEN Resolved1(Resolved1(EngineResp(k).body))
    ELSE Resolved1(EngineResp(k).body)

\* C15: with a key filter, a successful read (V2 or V1) whose data lacks the
\* key makes get fail with NotFoundError, and no request follows a successful
\* read (a key missing from V2 data does not start the V1 attempt); when the
\* key is present the returned data holds exactly that key and its value.
C15_KeyFilter ==
    (args.command = "get" /\ args.key # "") =>
        \A k \in 1..NumEngine :
            IsOk(EngineResp(k)) =>
                /\ k = NumEngine
                /\ IF args.key \in DOMAIN ResolvedData(k)
                   THEN /\ pc \in {"returned", "printed"}
                        /\ DOMAIN result.data = {args.key}
                        /\ result.data[args.key] = ResolvedData(k)[args.key]
                   ELSE /\ pc = "failed"
                        /\ error = KeyNotFound
                        /\ ErrorClass(error) = "NotFoundError"

\* auto mode, the V2 read succeeds without the requested key: get has failed
\* after that one request
C15_Witness ==
    /\ args.command = "get" /\ args.key = "user" /\ GetKv = Auto
    /\ NumEngine = 1 /\ IsV2Get(EngineReq(1)) /\ IsOk(EngineResp(1))
    /\ ResolvedData(1) = Secret1
    /\ pc = "failed" /\ error = KeyNotFound

\* a path that is a mount alone: once its outer slashes are stripped no '/'
\* is left, so it has fewer than two segments
MountAlone(path) ==
    \A i \in 1..Len(path) :
        path[i] = "/" =>
            \/ \A j \in 1..(i - 1) : path[j] = "/"
            \/ \A j \in (i + 1)..Len(path) : path[j] = "/"

\* C16: get on a path of fewer than two segments is rejected (invalid path)
\* without any request to the secret engine.
C16_MountAloneRejected ==
    (args.command = "get" /\ MountAlone(args.path)) =>
        /\ pc = "failed"
        /\ error = InvalidPath
        /\ NumEngine = 0

\* get /secret/ : rejected, nothing was sent
C16_Witness ==
    /\ args.command = "get" /\ args.path = <<"/", "secret", "/">>
    /\ pc = "failed" /\ error = InvalidPath
    /\ requests = <<>>

\* a LIST in the V2 layout (mount/metadata/subpath) and in the V1 layout
IsV2List(r) == r.method = "LIST" /\ "metadata" \in Atoms(r.url)
IsV1List(r) == r.method = "LIST" /\ "metadata" \notin Atoms(r.url)

\* C17: list negotiates like get: in Auto mode the V2 LIST goes first and
\* the V1 LIST only after a 404 on it; an explicit version sends only that
\* version's LIST; a 403 on the V2 LIST fails at once with no V1 LIST; a
\* failed V1 LIST is terminal.
C17_ListNegotiation ==
    args.command = "list" =>
        /\ NumEngine <= 2
        /\ GetKv = Auto =>
              /\ NumEngine >= 1 => IsV2List(EngineReq(1))
              /\ NumEngine = 2 =>
                    (IsV1List(EngineReq(2)) /\ IsHttp(EngineResp(1), 404))
              /\ (NumEngine = 1 /\ IsHttp(EngineResp(1), 404)) => pc = "list_v1"
        /\ GetKv = S("2") =>
              (NumEngine <= 1 /\ \A k \in 1..NumEngine : IsV2List(EngineReq(k)))
        /\ GetKv = S("1") =>
              (NumEngine <= 1 /\ \A k \in 1..NumEngine : IsV1List(EngineReq(k)))
        /\ \A k \in 1..NumEngine :
              /\ (IsV2List(EngineReq(k)) /\ IsHttp(EngineResp(k), 403)) =>
                    (k = NumEngine /\ pc = "failed"
                        /\ ErrorClass(error) = "PermissionError")
              /\ (IsV1List(EngineReq(k)) /\ ~IsOk(EngineResp(k))) =>
                    (k = NumEngine /\ pc = "failed")

\* a V1 listing after exactly one fallback
C17_Witness ==
    /\ args.command = "list" /\ GetKv = Auto /\ pc = "returned"
    /\ NumEngine = 2 /\ IsHttp(EngineResp(1), 404)
    /\ result = <<"db", "sub/">>
    /\ EngineReq(1).url = <<"he", "/", "v1", "/", "secret", "/", "metadata", "/", "app">>
    /\ EngineReq(2).url = <<"he", "/", "v1", "/", "secret", "/", "app">>

\* a successful LIST answer that names no entry
NoEntries(body) ==
    \/ "data" \notin DOMAIN body
    \/ "keys" \notin DOMAIN body["data"]
    \/ body["data"]["keys"] = <<>>

C19_SealProbeFailure ==
    (args.command = "status" /\ NumEngine >= 1
        /\ EngineResp(1).kind = "http" /\ ~IsOk(EngineResp(1))) =>
        /\ NumEngine = 1
        /\ IsSealProbe(EngineReq(1))
        /\ Returned
        /\ result.connected = FALSE
        /\ DOMAIN result \cap {"sealed", "authenticated"} = {}

\* the seal probe answered 503
C19_Witness ==
    /\ args.command = "status" /\ pc = "returned"
    /\ NumEngine = 1 /\ IsHttp(EngineResp(1), 503)
    /\ result = [connected |-> FALSE, error |-> "Could not reach Vault"]

TokenFields == {"token_accessor", "token_policies", "token_ttl", "token_renewable"}

\* C20: when the seal probe succeeds and the self-lookup is answered with a
\* non-success response, status returns connected=true, authenticated=false
\* and a reason instead of failing; the token's accessor, policies, ttl and
\* renewable flag are in the result only when the self-lookup succeeded.
C20_LookupFailureIsResult ==
    args.command = "status" =>
        /\ (NumEngine = 2 /\ IsOk(EngineResp(1))
               /\ EngineResp(2).kind = "http" /\ ~IsOk(EngineResp(2))) =>
              /\ IsLookup(EngineReq(2))
              /\ Returned
              /\ error = NoError
              /\ result.connected /\ ~result.authenticated
              /\ "error" \in DOMAIN result
              /\ DOMAIN result \cap TokenFields = {}
        /\ (Returned /\ DOMAIN result \cap TokenFields # {}) =>
              /\ TokenFields \subseteq DOMAIN result
              /\ result.authenticated
              /\ NumEngine = 2 /\ IsLookup(EngineReq(2)) /\ IsOk(EngineResp(2))

\* the self-lookup answered 403 on an unsealed backend
C20_Witness ==
    /\ args.command = "status" /\ pc = "returned"
    /\ NumEngine = 2 /\ IsOk(EngineResp(1)) /\ IsHttp(EngineResp(2), 403)
    /\ result = [connected |-> TRUE, sealed |-> FALSE, authenticated |-> FALSE,
                 error |-> "Token invalid or expired"]


\* a request in the V2 layout, and one in the V1 layout, of get or list
IsV2Req(r) == IsV2Get(r) \/ IsV2List(r)
IsV1Req(r) == IsV1Get(r) \/ IsV1List(r)

\* C21: a get or list invocation sends its requests one after the other, at
\* most one AppRole login and at most two secret-engine requests (V2, then
\* V1); no endpoint is asked twice; a failed secret-engine request is
\* followed by the V1 request only as the fallback from a 404 on the V2
\* request, and otherwise by the end of the operation.
C21_BoundedSequential ==
    args.command \in {"get", "list"} =>
        /\ Len(responses) = Len(requests)
        /\ Cardinality(Logins) <= 1
        /\ NumEngine <= 2
        /\ \A i, j \in Sent :
              (i # j) => (requests[i].method # requests[j].method
                             \/ requests[i].url # requests[j].url)
        /\ \A k \in 1..NumEngine :
              ~IsOk(EngineResp(k)) =>
                  IF k < NumEngine
                  THEN /\ k = 1 /\ IsHttp(EngineResp(k), 404)
                       /\ IsV2Req(EngineReq(k)) /\ IsV1Req(EngineReq(k + 1))
                  ELSE Terminated \/ pc \in {"get_v1", "list_v1"}

\* a login, the V2 LIST answered 404, the V1 LIST answered 500: three
\* requests and the operation is over
C21_Witness ==
    /\ args.command = "list" /\ pc = "failed"
    /\ Logins = {1} /\ NumEngine = 2 /\ Len(requests) = 3
    /\ IsHttp(EngineResp(1), 404) /\ IsHttp(EngineResp(2), 500)


\* the message make_request prints for each exception it catches
TransportText(kind) ==
    CASE kind = "SSLError"        -> SSLFailed
      [] kind = "ConnectionError" -> ConnectionFailed
      [] kind = "Timeout"         -> TimedOut

\* C22: make_request does not fail on an HTTP status: whatever the status,
\* it returns a result with that status code, the parsed body and
\* ok = (status is a success status) and the process goes on in the caller;
\* only an SSL, connection or timeout failure ends the process inside
\* make_request.
C22_StatusIsReturned ==
    NumEngine >= 1 =>
        IF EngineResp(NumEngine).kind = "http"
        THEN /\ api = [status_code |-> EngineResp(NumEngine).status,
                       data |-> EngineResp(NumEngine).body,
                       ok |-> EngineResp(NumEngine).status \in 200..299]
             /\ error \notin {SSLFailed, ConnectionFailed, TimedOut}
        ELSE /\ api = NoApi
             /\ pc = "failed"
             /\ error = TransportText(EngineResp(NumEngine).kind)

\* a 503 on the V2 read came back as a result, and get_secret ended the
\* command with the message it chose for it
C22_Witness ==
    /\ args.command = "get" /\ NumEngine = 1 /\ IsHttp(EngineResp(1), 503)
    /\ api = [status_code |-> 503, data |-> EmptyDict, ok |-> FALSE]
    /\ pc = "failed" /\ error.msg = "Vault is sealed"


\* the class the taxonomy gives to a terminal status of get or list
StatusClass(status) ==
    IF status = 403 THEN "PermissionError"
    ELSE IF status = 404 THEN "NotFoundError"
    ELSE IF status = 503 THEN "SealedError"
    ELSE "ServerError"

\* C23: when get or list ends on a non-success status, the error is the
\* taxonomy's class for that status (403 PermissionError, 404 NotFoundError,
\* sealed SealedError, any other 5xx ServerError) and carries an
\* operator-action text.
C23_StatusTaxonomy ==
    (args.command \in {"get", "list"} /\ pc = "failed" /\ NumEngine >= 1
        /\ EngineResp(NumEngine).kind = "http"
        /\ EngineResp(NumEngine).status \in {403, 404} \cup 500..599) =>
        /\ ErrorClass(error) = StatusClass(EngineResp(NumEngine).status)
        /\ error.hint # ""


\* C24: every record get returns to its caller names the version of the
\* request that succeeded, "1" or "2", under every effective version
\* preference and every sequence of backend answers.
C24_VersionUsedIsV1OrV2 ==
    (args.command = "get" /\ Returned) => result.version \in {"1", "2"}


CredFields == {"addr", "token", "role_id", "role_secret", "namespace",
               "skip_verify", "kv_version", "env"}

\* one step taken after load_credentials has returned the record
C25_Step ==
    pc \notin {"start", "read", "given"} =>
        /\ DOMAIN creds' = DOMAIN creds
        /\ \A f \in CredFields \ {"token"} : creds'[f] = creds[f]
        /\ creds'["token"] # creds["token"] =>
              /\ pc = "loaded"
              /\ ~Truthy(creds["token"])
              /\ IsLogin(requests'[Len(requests')])

\* C25: once resolved, the Credentials record changes only in its token,
\* which only the AppRole step writes and only when no token was present;
\* get, list, status and the requests they send change no field.
C25_OnlyTokenChanges == [][C25_Step]_vars

\* a status command has run to its end on a record whose token came from the
\* login; the role pair of the file is still there
C25_Witness ==
    /\ args.command = "status" /\ Returned /\ Logins = {1} /\ NumEngine = 2
    /\ creds["token"] = S("tl")
    /\ creds["role_id"] = S("rf") /\ creds["role_secret"] = S("xf")


\* the first line of the message printed for a failure status
StatusText(status) ==
    CASE status = 400 -> "Bad request"
      [] status = 403 -> "Permission denied"
      [] status = 404 -> "Secret not found"
      [] status = 500 -> "Vault internal error"
      [] status = 503 -> "Vault is sealed"
      [] OTHER        -> "Error (status)"

\* C26: in get, a V2 read answered with a failure status other than 404
\* ends the operation with that status's error, in every mode, and no V1
\* read is sent; a V1 read that fails in any way (404 included) ends the
\* operation and nothing is sent after it.
C26_GetFailuresTerminal ==
    args.command = "get" =>
        \A k \in 1..NumEngine :
            /\ (IsV2Get(EngineReq(k)) /\ EngineResp(k).kind = "http"
                   /\ ~IsOk(EngineResp(k)) /\ EngineResp(k).status # 404) =>
                  /\ k = NumEngine
                  /\ \A j \in 1..NumEngine : ~IsV1Get(EngineReq(j))
                  /\ pc = "failed"
                  /\ error.msg = StatusText(EngineResp(k).status)
            /\ (IsV1Get(EngineReq(k)) /\ ~IsOk(EngineResp(k))) =>
                  /\ k = NumEngine
                  /\ pc = "failed"
                  /\ error # NoError
                  /\ EngineResp(k).kind = "http" =>
                        error.msg = StatusText(EngineResp(k).status)

\* auto mode, the V2 read answered 500: over after one request
C26_Witness ==
    /\ args.command = "get" /\ GetKv = Auto /\ pc = "failed"
    /\ NumEngine = 1 /\ IsV2Get(EngineReq(1)) /\ IsHttp(EngineResp(1), 500)
    /\ error.msg = "Vault internal error"


\* the lines of the one file resolution consults
Consulted ==
    IF Existing = {} THEN <<>>
    ELSE given.fs[get_credential_paths(given.env)[FirstIdx]]

AddrLines == {i \in 1..Len(Consulted) :
                 Consulted[i].kind = "std" /\ Consulted[i].key = "VAULT_ADDR"}
PropLinesOf(key) == {i \in 1..Len(Consulted) :
                        Consulted[i].kind = "prop" /\ Consulted[i].key = key}
LastProp(key, default) ==
    IF PropLinesOf(key) = {} THEN default
    ELSE Consulted[CHOOSE i \in PropLinesOf(key) :
                      \A j \in PropLinesOf(key) : j <= i].value

EnvAddrGiven == ~Truthy(given.env) /\ given.environ["VAULT_ADDR"] # None
\* the explicit address: the environment's, else the file's first VAULT_ADDR
ExplicitAddr ==
    IF EnvAddrGiven THEN given.environ["VAULT_ADDR"]
    ELSE Consulted[CHOOSE i \in AddrLines : \A j \in AddrLines : i <= j].value

\* C27: an explicit address (the environment's without a tag, or a
\* VAULT_ADDR line anywhere in the consulted file) is the resolved address
\* whatever server/port/protocol properties the file holds and wherever they
\* stand; without one, a server property gives protocol://server:port with
\* https and 8200 as defaults; the record never holds the temporary
\* server/port/protocol values.
C27_AddressSynthesis ==
    Resolved =>
        /\ DOMAIN creds \cap {"_server", "_port", "_protocol"} = {}
        /\ IF EnvAddrGiven \/ AddrLines # {}
           THEN creds["addr"] = IF pc = "loaded" THEN RStripSlash(ExplicitAddr)
                                ELSE ExplicitAddr
           ELSE IF PropLinesOf("server") # {}
           THEN creds["addr"] = LastProp("protocol", S("https")) \o S("://")
                                   \o LastProp("server", None) \o S(":")
                                   \o LastProp("port", S("8200"))
           ELSE pc = "failed" /\ error = AddrNotConfigured

\* the file names a server first and an explicit address after it
C27_Witness ==
    /\ pc = "loaded" /\ ~EnvAddrGiven
    /\ Len(Consulted) = 2
    /\ Consulted[1].kind = "prop" /\ Consulted[1].key = "server"
    /\ AddrLines = {2}
    /\ creds["addr"] = S("hf")


\* C28: when the seal probe of status cannot reach the backend (connection
\* refused, TLS failure, timeout), status yields a result with
\* connected=false instead of ending the command with a fatal error.
C28_UnreachableIsResult ==
    (args.command = "status" /\ NumEngine >= 1 /\ EngineResp(1).kind # "http") =>
        /\ Returned
        /\ error = NoError
        /\ result.connected = FALSE

\* C29: a transport failure (TLS, connection, timeout) on any request, the
\* AppRole login included, ends the operation at that request with a
\* TransportError and its operator message.
C29_TransportFailureClassified ==
    \A i \in Sent :
        responses[i].kind # "http" =>
            /\ i = Len(requests)
            /\ pc = "failed"
            /\ ErrorClass(error) = "TransportError"
            /\ error.hint # ""

\* a successful login answer that holds no usable client token
LacksToken(body) ==
    \/ "auth" \notin DOMAIN body
    \/ "client_token" \notin DOMAIN body["auth"]
    \/ body["auth"]["client_token"] = EmptyStr

C30_Inv ==
    /\ \A k \in 1..NumEngine :
          /\ EngineReq(k).headers.token # None
          /\ EngineReq(k).headers.token # EmptyStr
    /\ (Logins # {} /\ IsOk(responses[1]) /\ LacksToken(responses[1].body)) =>
          (pc = "failed" /\ error = NoValidAuth /\ NumEngine = 0)

C30_Step ==
    (pc \notin {"start", "read", "given"} /\ creds'["token"] # creds["token"]) =>
        (creds'["token"] # None /\ creds'["token"] # EmptyStr)

\* C30: every request sent through make_request carries a non-empty token;
\* a successful AppRole login answer without a client token ends the
\* operation before any secret-engine or status request, and the record's
\* token is never set to an empty value.
C30_RequestsCarryToken == [](C30_Inv) /\ [][C30_Step]_vars

\* the login succeeded with an empty client token and the operation ended
C30_Witness ==
    /\ Logins = {1} /\ IsOk(responses[1])
    /\ responses[1].body = [auth |-> [client_token |-> EmptyStr]]
    /\ pc = "failed" /\ error = NoValidAuth /\ Len(requests) = 1
    /\ creds["token"] = None

====
